---------------------------- MODULE Spec2Model ----------------------------
(***************************************************************************)
(* A model of the two Lambda handlers of ecs-workload-modernization:      *)
(*   cicd/lambda/secrets-rotation/index.py  (the secret rotator)           *)
(*   cicd/lambda/octopus-deploy/index.py    (the deployment trigger)       *)
(* Python strings are sequences of one-character strings; a dict is a      *)
(* sequence of <<key, value>> pairs with distinct keys, kept in insertion  *)
(* order as CPython keeps it.                                              *)
(***************************************************************************)
EXTENDS Integers, Sequences, FiniteSets, TLC

VARIABLES
    passwords,       \* the strings generate_secure_password has returned, in call order
    sr_calls,        \* the calls of should_rotate_secret made: [secret, utcnow, result]
    \* --- the secret rotator (secrets-rotation/index.py) ---
    event,           \* the event the rotator's handler is invoked with
    environ,         \* os.environ of the rotator
    utcnow,          \* datetime.utcnow() during the invocation
    secrets_store,   \* Secrets Manager: secret name -> stored value
    secret_list,     \* what list_secrets enumerates: [Name, LastChangedDate] records
    rot_pc,          \* where the invocation is: idle, paginate, page, done
    fetched,         \* how many entries of secret_list the paginator has returned
    page,            \* the entries of the current page not yet processed
    results,         \* rotate_scheduled_secrets' results dict
    response,        \* what handler returned (<<>> before it returns)
    rotate_log,      \* the calls of rotate_secret_by_type: name, value read, outcome
    \* --- the deployment trigger (octopus-deploy/index.py) ---
    dep_event,       \* the event the trigger's handler is invoked with
    dep_environ,     \* os.environ of the trigger
    server,          \* the deployment server: the space, project, environment names it knows
    releases,        \* the releases created on the server, in order
    deployments,     \* the deployments created on the server, in order
    dep_pc,          \* where the invocation is: start, create_release, deploy, wait,
                     \* notify, except, done
    locals,          \* the local variables of handler bound so far
    dep_error,       \* str(e) of the exception being handled, "" when none
    elapsed,         \* wait_for_deployment: time.time() - start_time, in seconds
    polls,           \* wait_for_deployment: when the last two status queries were
                     \* sent, in seconds after start_time
    last_state,      \* wait_for_deployment: the state the last query answered
    notify_calls,    \* the put_job_success_result / put_job_failure_result calls issued
    dep_response     \* what handler returned (<<>> before it returns)

dep_vars == <<dep_event, dep_environ, server, releases, deployments, dep_pc, locals,
              dep_error, elapsed, polls, last_state, notify_calls, dep_response>>

pure_vars == <<passwords, sr_calls>>

rot_vars == <<event, environ, utcnow, secrets_store, secret_list, rot_pc, fetched,
              page, results, response, rotate_log>>

vars == <<pure_vars, rot_vars, dep_vars>>

(***************************************************************************)
(* Bounds of the model.                                                    *)
(***************************************************************************)
\* Random draws are the cyclic repetitions of patterns of at most this length.
MaxPattern == 3
\* Clock resolution: datetimes are counted in ticks, this many to a day.
TicksPerDay == 2
\* should_rotate_secret is called at times up to this many ticks after the
\* oldest datetime plus 90 days.
MaxSlack == 3
\* A status query of wait_for_deployment is answered within this many seconds.
MaxLatency == 1

(***************************************************************************)
(* string constants (Python's string module), index.py:273-284             *)
(***************************************************************************)
ascii_lowercase ==
    {"a","b","c","d","e","f","g","h","i","j","k","l","m",
     "n","o","p","q","r","s","t","u","v","w","x","y","z"}

ascii_uppercase ==
    {"A","B","C","D","E","F","G","H","I","J","K","L","M",
     "N","O","P","Q","R","S","T","U","V","W","X","Y","Z"}

digits == {"0","1","2","3","4","5","6","7","8","9"}

symbols == {"!","@","#","$","%","^","&","*"}

ascii_letters == ascii_lowercase \cup ascii_uppercase

\* The characters random.choice is let to return in the model: two of each
\* class. Membership tests (islower, isupper, isdigit, in) use the full sets.
SampleChars == {"a","z","A","Z","0","9","!","*"}

\* random.choice(population): any element of the population (sampled)
Choices(population) == population \cap SampleChars

\* The strings ''.join(random.choice(population) for _ in range(length)) may
\* return in the model: a pattern of 1..MaxPattern characters repeated.
RandomStrings(population, length) ==
    { [i \in 1..length |-> p[((i - 1) % Len(p)) + 1]] :
        p \in UNION { [1..n -> Choices(population)] : n \in 1..MaxPattern } }

islower(c) == c \in ascii_lowercase
isupper(c) == c \in ascii_uppercase
isdigit(c) == c \in digits
issymbol(c) == c \in symbols

\* any(pred(c) for c in s)
AnyChar(s, class) == \E i \in 1..Len(s) : s[i] \in class

\* s[:-1] + c
ReplaceLast(s, c) == SubSeq(s, 1, Len(s) - 1) \o <<c>>

(***************************************************************************)
(* generate_secure_password, index.py:269-286.  draw is the string of the  *)
(* first random draws; cl, cu, cd, cs are what random.choice returns for   *)
(* the lowercase, uppercase, digit and symbol patch when that patch runs.  *)
(***************************************************************************)
PatchLower(p, cl) == IF ~AnyChar(p, ascii_lowercase) THEN ReplaceLast(p, cl) ELSE p
PatchUpper(p, cu) == IF ~AnyChar(p, ascii_uppercase) THEN ReplaceLast(p, cu) ELSE p
PatchDigit(p, cd) == IF ~AnyChar(p, digits) THEN ReplaceLast(p, cd) ELSE p
PatchSymbol(p, cs) == IF ~AnyChar(p, symbols) THEN ReplaceLast(p, cs) ELSE p

generate_secure_password(draw, cl, cu, cd, cs) ==
    PatchSymbol(PatchDigit(PatchUpper(PatchLower(draw, cl), cu), cd), cs)

\* The default and only length the rotator asks for (index.py:177, 269).
PasswordLength == 32

PasswordCharacters == ascii_letters \cup digits \cup symbols

\* The call generate_secure_password(32)
GeneratePassword ==
    /\ passwords = <<>>
    /\ \E draw \in RandomStrings(PasswordCharacters, PasswordLength),
          cl \in Choices(ascii_lowercase), cu \in Choices(ascii_uppercase),
          cd \in Choices(digits), cs \in Choices(symbols) :
            passwords' = Append(passwords, generate_secure_password(draw, cl, cu, cd, cs))
    /\ UNCHANGED <<sr_calls, rot_vars, dep_vars>>

(***************************************************************************)
(* should_rotate_secret, index.py:135-146.  A datetime is a number of      *)
(* ticks; a secret is the record list_secrets returns for it, whose        *)
(* LastChangedDate key may be absent.                                      *)
(***************************************************************************)
timedelta(days) == days * TicksPerDay

RotationDays == 90

\* secret.get('LastChangedDate') is None: a datetime is never falsy
NoLastChanged(secret) == "LastChangedDate" \notin DOMAIN secret

\* A variant comparing with <= : a secret changed exactly 90 days ago is due.
should_rotate_secret_inclusive(secret, now) ==
    IF NoLastChanged(secret)
    THEN TRUE
    ELSE secret.LastChangedDate <= now - timedelta(RotationDays)

should_rotate_secret(secret, now) ==
    IF NoLastChanged(secret)
    THEN TRUE
    ELSE LET last_changed == secret.LastChangedDate
             rotation_threshold == now - timedelta(RotationDays)
         IN  last_changed < rotation_threshold

\* The datetimes of the model: from 0 to a little after 90 days.
MaxTime == timedelta(RotationDays) + MaxSlack
Times == 0..MaxTime

\* What list_secrets may return for one secret, the name aside.
SecretDates == {<<>>} \cup [{"LastChangedDate"} -> Times]

ShouldRotate ==
    /\ sr_calls = <<>>
    /\ \E now \in Times, secret \in SecretDates :
          sr_calls' = Append(sr_calls, [secret |-> secret, utcnow |-> now,
                                        result |-> should_rotate_secret(secret, now)])
    /\ UNCHANGED <<passwords, rot_vars, dep_vars>>

(***************************************************************************)
(* Secret names.  A name is written as a sequence of fragments; Chars      *)
(* spells it out, and the substring tests of the code are made on the      *)
(* characters.                                                             *)
(***************************************************************************)
Spell(f) ==
    CASE f = "ecs-modernization/" -> <<"e","c","s","-","m","o","d","e","r","n","i","z","a","t","i","o","n","/">>
      [] f = "ecs-modernization" -> <<"e","c","s","-","m","o","d","e","r","n","i","z","a","t","i","o","n">>
      [] f = "database" -> <<"d","a","t","a","b","a","s","e">>
      [] f = "api-secrets" -> <<"a","p","i","-","s","e","c","r","e","t","s">>
      [] f = "jwt" -> <<"j","w","t">>
      [] f = "api" -> <<"a","p","i">>
      [] f = "ap" -> <<"a","p">>
      [] f = "i" -> <<"i">>
      [] f = "data" -> <<"d","a","t","a">>
      [] f = "base" -> <<"b","a","s","e">>
      [] f = "DATABASE" -> <<"D","A","T","A","B","A","S","E">>
      [] f = "other" -> <<"o","t","h","e","r">>
      [] f = "foo-" -> <<"f","o","o","-">>
      [] f = "-bar" -> <<"-","b","a","r">>

RECURSIVE Chars(_)
Chars(name) == IF name = <<>> THEN <<>> ELSE Spell(Head(name)) \o Chars(Tail(name))

\* sub in s
Contains(s, sub) ==
    \E i \in 1..(Len(s) - Len(sub) + 1) : SubSeq(s, i, i + Len(sub) - 1) = sub

\* s.startswith(prefix)
StartsWith(s, prefix) ==
    Len(s) >= Len(prefix) /\ SubSeq(s, 1, Len(prefix)) = prefix

\* index.py:82
InNamespace(secret_name) == StartsWith(Chars(secret_name), Spell("ecs-modernization/"))

(***************************************************************************)
(* JSON and Python values.  A SecretString is a JSON text: invalid, an     *)
(* object (its members in text order, keys possibly repeated), an array    *)
(* or a string; a secret may also hold binary data and no SecretString.    *)
(* json.loads gives a dict, a list or a str; json.dumps writes it back.    *)
(***************************************************************************)
JsonInvalid == [json |-> "invalid"]
JsonObject(members) == [json |-> "object", members |-> members]
JsonArray(items) == [json |-> "array", items |-> items]
JsonString(chars) == [json |-> "string", chars |-> chars]
Binary == [json |-> "binary"]

Keys(d) == { d[i][1] : i \in DOMAIN d }

\* d[k] = v on a dict: in place when the key is there, appended when not
RECURSIVE DictSet(_, _, _)
DictSet(d, k, v) ==
    IF d = <<>> THEN << <<k, v>> >>
    ELSE IF Head(d)[1] = k THEN << <<k, v>> >> \o Tail(d)
    ELSE <<Head(d)>> \o DictSet(Tail(d), k, v)

\* d[k], for k in d
DictGet(d, k) == LET i == CHOOSE j \in DOMAIN d : d[j][1] = k IN d[i][2]

\* The dict of a JSON object: a repeated key keeps its first place and
\* takes its last value.
RECURSIVE DictOfMembers(_, _)
DictOfMembers(d, members) ==
    IF members = <<>> THEN d
    ELSE DictOfMembers(DictSet(d, Head(members)[1], Head(members)[2]), Tail(members))

PyDict(items) == [type |-> "dict", items |-> items]
PyList(items) == [type |-> "list", items |-> items]
PyStr(chars) == [type |-> "str", chars |-> chars]

\* json.loads(text), for a text that parses
json_loads(text) ==
    CASE text.json = "object" -> PyDict(DictOfMembers(<<>>, text.members))
      [] text.json = "array" -> PyList(text.items)
      [] text.json = "string" -> PyStr(text.chars)

\* json.dumps(value)
json_dumps(value) ==
    CASE value.type = "dict" -> JsonObject(value.items)
      [] value.type = "list" -> JsonArray(value.items)
      [] value.type = "str" -> JsonString(value.chars)

\* key in value: a key of a dict, an element of a list
In(key, value) ==
    CASE value.type = "dict" -> key \in Keys(value.items)
      [] value.type = "list" -> \E i \in DOMAIN value.items : value.items[i] = key
      [] OTHER -> FALSE

\* value.copy() exists for a dict and a list; a str has none (AttributeError)
HasCopy(value) == value.type \in {"dict", "list"}

\* value[key] = x is an item assignment only on a dict (a list: TypeError)
SetItem(value, key, x) == PyDict(DictSet(value.items, key, x))

(***************************************************************************)
(* Random values of one rotation.  A random source r fixes what the        *)
(* random module returns during one rotation: r.c for every character of   *)
(* a first draw, and r.cl, r.cu, r.cd, r.cs for the four password patches. *)
(***************************************************************************)
TokenCharacters == ascii_letters \cup digits

RandomSources ==
    [c : {"a", "Z"}, cl : {"z"}, cu : {"A"}, cd : {"9"}, cs : {"*"}]

\* ''.join(random.choice(characters) for _ in range(length)) under source r
Draw(r, length) == [i \in 1..length |-> r.c]

\* generate_secure_token, index.py:288-293
generate_secure_token(r, length) == Draw(r, length)

\* generate_api_key, index.py:295-301
generate_api_key(r) ==
    <<"e","c","s","_","m","o","d">> \o <<"_">> \o generate_secure_token(r, 32)

(***************************************************************************)
(* The rotations by category, index.py:172-267.  Each returns an outcome:  *)
(* the value returned or the exception raised, with the update_secret      *)
(* calls it issued.  update_ok tells whether the store accepts the update. *)
(***************************************************************************)
Raised(error, updates) == [raised |-> TRUE, error |-> error, updates |-> updates]
Returned(result, updates) == [raised |-> FALSE, result |-> result, updates |-> updates]

\* secrets_client.update_secret(SecretId=..., SecretString=..., KmsKeyId=...)
UpdateCall(secret_name, new_secret, kms_key_id, update_ok) ==
    [SecretId |-> secret_name, SecretString |-> json_dumps(new_secret),
     KmsKeyId |-> kms_key_id, ok |-> update_ok]

\* The update_secret call and the return statement that end a rotation
StoreAndReturn(secret_name, new_secret, kms_key_id, update_ok, result) ==
    LET call == UpdateCall(secret_name, new_secret, kms_key_id, update_ok) IN
    IF update_ok THEN Returned(result, <<call>>)
    ELSE Raised("update_secret failed", <<call>>)

\* A variant that assigns whether or not the key is present.
SetIfPresent_Always(new_secret, key, x) ==
    IF new_secret.type = "dict" THEN [type |-> "dict", items |-> DictSet(new_secret.items, key, x)]
    ELSE [raised |-> TRUE, error |-> "TypeError", updates |-> <<>>]

\* if key in new_secret: new_secret[key] = x.  An outcome when the
\* assignment raises, the new value of new_secret when not.
SetIfPresent(new_secret, key, x) ==
    IF ~In(key, new_secret) THEN new_secret
    ELSE IF new_secret.type = "dict" THEN SetItem(new_secret, key, x)
    ELSE Raised("TypeError", <<>>)

IsRaised(v) == "raised" \in DOMAIN v

\* A variant that stores the new password alone, not merged into a copy of
\* the current value.
rotate_database_secret_unmerged(secret_name, current_secret, kms_key_id, r, update_ok, now) ==
    IF current_secret.type # "dict"
    THEN Raised(IF HasCopy(current_secret) THEN "TypeError" ELSE "AttributeError", <<>>)
    ELSE StoreAndReturn(secret_name,
                        PyDict(<< <<"password",
                                    generate_secure_password(Draw(r, PasswordLength),
                                                             r.cl, r.cu, r.cd, r.cs)>> >>),
                        kms_key_id, update_ok,
                        [type |-> "database", action |-> "password_rotated", timestamp |-> now])

rotate_database_secret(secret_name, current_secret, kms_key_id, r, update_ok, now) ==
    LET new_password ==
            generate_secure_password(Draw(r, PasswordLength), r.cl, r.cu, r.cd, r.cs)
    IN
    IF ~HasCopy(current_secret) THEN Raised("AttributeError", <<>>)
    ELSE IF current_secret.type # "dict" THEN Raised("TypeError", <<>>)
    ELSE StoreAndReturn(secret_name, SetItem(current_secret, "password", new_password),
                        kms_key_id, update_ok,
                        [type |-> "database", action |-> "password_rotated", timestamp |-> now])

rotate_api_secret(secret_name, current_secret, kms_key_id, r, update_ok, now) ==
    IF ~HasCopy(current_secret) THEN Raised("AttributeError", <<>>)
    ELSE
    LET s1 == SetIfPresent(current_secret, "jwt_secret", generate_secure_token(r, 64))
        s2 == IF IsRaised(s1) THEN s1 ELSE SetIfPresent(s1, "api_key", generate_api_key(r))
        s3 == IF IsRaised(s2) THEN s2 ELSE SetIfPresent(s2, "encrypt_key", generate_secure_token(r, 32))
        s4 == IF IsRaised(s3) THEN s3 ELSE SetIfPresent(s3, "webhook_secret", generate_secure_token(r, 32))
    IN
    IF IsRaised(s4) THEN s4
    ELSE StoreAndReturn(secret_name, s4, kms_key_id, update_ok,
                        [type |-> "api_secret", action |-> "keys_rotated", timestamp |-> now])

rotate_token_secret(secret_name, current_secret, kms_key_id, r, update_ok, now) ==
    IF ~HasCopy(current_secret) THEN Raised("AttributeError", <<>>)
    ELSE
    LET s1 == SetIfPresent(current_secret, "token", generate_secure_token(r, 64)) IN
    IF IsRaised(s1) THEN s1
    ELSE StoreAndReturn(secret_name, s1, kms_key_id, update_ok,
                        [type |-> "token", action |-> "token_rotated", timestamp |-> now])

\* A variant that writes the value it was given back to the store.
rotate_generic_secret_stored(secret_name, current_secret, kms_key_id, now) ==
    Returned([type |-> "generic", action |-> "reviewed_only", timestamp |-> now],
             <<UpdateCall(secret_name, current_secret, kms_key_id, TRUE)>>)

rotate_generic_secret(secret_name, current_secret, kms_key_id, now) ==
    Returned([type |-> "generic", action |-> "reviewed_only", timestamp |-> now], <<>>)

(***************************************************************************)
(* rotate_secret_by_type, index.py:148-170.  store is the secret store,    *)
(* get_ok tells whether get_secret_value answers.                          *)
(***************************************************************************)
\* A variant that tests 'jwt' and 'api' before 'api-secrets'.
Category_TokenFirst(secret_name) ==
    LET chars == Chars(secret_name) IN
    IF Contains(chars, Spell("database")) THEN "database"
    ELSE IF Contains(chars, Spell("jwt")) \/ Contains(chars, Spell("api")) THEN "token"
    ELSE IF Contains(chars, Spell("api-secrets")) THEN "api_secret"
    ELSE "generic"

\* The branch taken at index.py:158-166
Category(secret_name) ==
    LET chars == Chars(secret_name) IN
    IF Contains(chars, Spell("database")) THEN "database"
    ELSE IF Contains(chars, Spell("api-secrets")) THEN "api_secret"
    ELSE IF Contains(chars, Spell("jwt")) \/ Contains(chars, Spell("api")) THEN "token"
    ELSE "generic"

rotate_secret_by_type(secret_name, kms_key_id, store, get_ok, update_ok, r, now) ==
    IF ~get_ok \/ secret_name \notin DOMAIN store
    THEN Raised("get_secret_value failed", <<>>)
    ELSE IF store[secret_name].json = "binary" THEN Raised("KeyError", <<>>)
    ELSE IF store[secret_name].json = "invalid" THEN Raised("JSONDecodeError", <<>>)
    ELSE
    LET current_secret == json_loads(store[secret_name])
        category == Category(secret_name)
    IN
    CASE category = "database" ->
            rotate_database_secret(secret_name, current_secret, kms_key_id, r, update_ok, now)
      [] category = "api_secret" ->
            rotate_api_secret(secret_name, current_secret, kms_key_id, r, update_ok, now)
      [] category = "token" ->
            rotate_token_secret(secret_name, current_secret, kms_key_id, r, update_ok, now)
      [] OTHER ->
            rotate_generic_secret(secret_name, current_secret, kms_key_id, now)

\* The store after the update_secret calls of an outcome
RECURSIVE ApplyUpdates(_, _)
ApplyUpdates(store, updates) ==
    IF updates = <<>> THEN store
    ELSE LET call == Head(updates)
             next == IF call.ok /\ call.SecretId \in DOMAIN store
                     THEN [store EXCEPT ![call.SecretId] = call.SecretString]
                     ELSE store
         IN  ApplyUpdates(next, Tail(updates))

(***************************************************************************)
(* The rotator's handler, index.py:19-61, with rotate_specific_secret      *)
(* (110-127) and rotate_scheduled_secrets / rotate_all_secrets (63-133).   *)
(***************************************************************************)
EmptyResults == [rotated_secrets |-> <<>>, skipped_secrets |-> <<>>, failed_secrets |-> <<>>]

\* os.environ.get('KMS_KEY_ID'), "" when unset: unset and empty are both falsy
KmsKeyId == IF "KMS_KEY_ID" \in DOMAIN environ THEN environ.KMS_KEY_ID ELSE ""

\* index.py:32
IsScheduled(ev) == "source" \in DOMAIN ev /\ ev.source = "aws.events"

\* index.py:35
IsSpecific(ev) == ~IsScheduled(ev) /\ "SecretId" \in DOMAIN ev

\* The return of handler after a successful rotation, index.py:44-51
Success(res) ==
    [statusCode |-> 200,
     body |-> [message |-> "Secrets rotation completed successfully",
               results |-> res, timestamp |-> utcnow]]

\* The return of handler's except branch, index.py:53-61
Failure(error) ==
    [statusCode |-> 500, body |-> [error |-> error, timestamp |-> utcnow]]

\* The entry rotate_log gets for a call of rotate_secret_by_type
LogEntry(secret_name, get_ok, outcome) ==
    [secret_name |-> secret_name,
     read |-> IF get_ok /\ secret_name \in DOMAIN secrets_store
              THEN <<secrets_store[secret_name]>> ELSE <<>>,
     outcome |-> outcome]

\* index.py:27-29: KMS_KEY_ID is not set
HandlerMissingKey ==
    /\ rot_pc = "idle"
    /\ KmsKeyId = ""
    /\ response' = Failure("KMS_KEY_ID environment variable not set")
    /\ rot_pc' = "done"
    /\ UNCHANGED <<event, environ, utcnow, secrets_store, secret_list, fetched,
                   page, results, rotate_log>>

\* rotate_specific_secret's return value, index.py:114-127
SpecificResult(secret_id, outcome) ==
    IF outcome.raised
    THEN [secret_id |-> secret_id, error |-> outcome.error, status |-> "failed"]
    ELSE [secret_id |-> secret_id, result |-> outcome.result, status |-> "success"]

\* index.py:35-37: the event names a secret; rotate_specific_secret rotates it
HandlerSpecific ==
    /\ rot_pc = "idle"
    /\ KmsKeyId # ""
    /\ IsSpecific(event)
    /\ \E get_ok \in BOOLEAN, update_ok \in BOOLEAN, r \in RandomSources :
        LET secret_id == event.SecretId
            outcome == rotate_secret_by_type(secret_id, KmsKeyId, secrets_store,
                                             get_ok, update_ok, r, utcnow)
        IN
        /\ rotate_log' = Append(rotate_log, LogEntry(secret_id, get_ok, outcome))
        /\ secrets_store' = ApplyUpdates(secrets_store, outcome.updates)
        /\ response' = Success(SpecificResult(secret_id, outcome))
    /\ rot_pc' = "done"
    /\ UNCHANGED <<event, environ, utcnow, secret_list, fetched, page, results>>

\* index.py:32-34, 38-40, 67-75: a scheduled or default event starts the batch
HandlerBatch ==
    /\ rot_pc = "idle"
    /\ KmsKeyId # ""
    /\ ~IsSpecific(event)
    /\ results' = EmptyResults
    /\ rot_pc' = "paginate"
    /\ UNCHANGED <<event, environ, utcnow, secrets_store, secret_list, fetched,
                   page, response, rotate_log>>

\* index.py:77: the paginator returns the next page
PaginateNext ==
    /\ rot_pc = "paginate"
    /\ fetched < Len(secret_list)
    /\ \E n \in 1..(Len(secret_list) - fetched) :
        /\ page' = SubSeq(secret_list, fetched + 1, fetched + n)
        /\ fetched' = fetched + n
    /\ rot_pc' = "page"
    /\ UNCHANGED <<event, environ, utcnow, secrets_store, secret_list, results,
                   response, rotate_log>>

\* index.py:77, 104-106, 53-61: list_secrets raises; rotate_scheduled_secrets
\* raises it again and handler answers 500
PaginateRaise ==
    /\ rot_pc = "paginate"
    /\ fetched < Len(secret_list) \/ fetched = 0
    /\ response' = Failure("list_secrets failed")
    /\ rot_pc' = "done"
    /\ UNCHANGED <<event, environ, utcnow, secrets_store, secret_list, fetched,
                   page, results, rotate_log>>

\* index.py:89-92
RecordRotated(res, secret_name, outcome) ==
    [res EXCEPT !.rotated_secrets =
        Append(@, [name |-> secret_name, result |-> outcome.result])]

\* A variant that swallows the failure without recording it.
RecordFailed_Dropped(res, secret_name, outcome) == res

\* index.py:94-99
RecordFailed(res, secret_name, outcome) ==
    [res EXCEPT !.failed_secrets =
        Append(@, [name |-> secret_name, error |-> outcome.error])]

\* A variant that files a secret that is not due under rotated_secrets.
RecordSkipped_AsRotated(res, secret_name) ==
    [res EXCEPT !.rotated_secrets = Append(@, [name |-> secret_name, result |-> "skipped"])]

\* index.py:101
RecordSkipped(res, secret_name) ==
    [res EXCEPT !.skipped_secrets = Append(@, secret_name)]

\* index.py:87-99
RecordOutcome(res, secret_name, outcome) ==
    IF outcome.raised THEN RecordFailed(res, secret_name, outcome)
    ELSE RecordRotated(res, secret_name, outcome)

\* index.py:78-102: the body of the loop, for the next secret of the page
ProcessSecret ==
    /\ rot_pc = "page"
    /\ LET secret == Head(page)
           secret_name == secret.Name
       IN
       IF ~InNamespace(secret_name)
       THEN UNCHANGED <<results, secrets_store, rotate_log>>
       ELSE IF should_rotate_secret(secret, utcnow)
       THEN \E get_ok \in BOOLEAN, update_ok \in BOOLEAN, r \in RandomSources :
              LET outcome == rotate_secret_by_type(secret_name, KmsKeyId, secrets_store,
                                                   get_ok, update_ok, r, utcnow)
              IN
              /\ rotate_log' = Append(rotate_log, LogEntry(secret_name, get_ok, outcome))
              /\ secrets_store' = ApplyUpdates(secrets_store, outcome.updates)
              /\ results' = RecordOutcome(results, secret_name, outcome)
       ELSE /\ results' = RecordSkipped(results, secret_name)
            /\ UNCHANGED <<secrets_store, rotate_log>>
    /\ page' = Tail(page)
    /\ rot_pc' = IF Tail(page) = <<>> THEN "paginate" ELSE "page"
    /\ UNCHANGED <<event, environ, utcnow, secret_list, fetched, response>>

\* index.py:108, 42-51: the pages are exhausted; the report is returned
BatchReturn ==
    /\ rot_pc = "paginate"
    /\ fetched = Len(secret_list)
    /\ response' = Success(results)
    /\ rot_pc' = "done"
    /\ UNCHANGED <<event, environ, utcnow, secrets_store, secret_list, fetched,
                   page, results, rotate_log>>

(***************************************************************************)
(* The deployment trigger, octopus-deploy/index.py.  A JSON value is a     *)
(* record tagged json; None is Python's None.                              *)
(***************************************************************************)
None == "None"

\* d.get(key, default)
Get(d, key, default) == IF key \in DOMAIN d THEN d[key] ELSE default

\* s.upper(), on the project names of the model
Upper(name) ==
    CASE name = "web" -> "WEB"
      [] name = "Web" -> "WEB"
      [] OTHER -> name

\* project_name.upper() + "-System", index.py:169
ProjectConvention(project_name) == <<Upper(project_name), "-System">>

\* The requests of create_octopus_release before index.py:22: the spaces of
\* the server are asked for (the head of the function is not in the file)
GetSpaces(srv, ok_spaces) ==
    IF ok_spaces THEN [raised |-> FALSE, Items |-> srv.spaces]
    ELSE [raised |-> TRUE, error |-> "HTTPError: spaces"]

\* get_parameter('/ecs-modernization/octopus-api-key', encrypted=True),
\* index.py:156 (the function is not in the file): the key, or an exception
GetParameter(ok_parameter) ==
    IF ok_parameter THEN [raised |-> FALSE, value |-> "API-KEY"]
    ELSE [raised |-> TRUE, error |-> "get_parameter failed"]

\* create_octopus_release, index.py:22-56: the release created, or the
\* exception raised.  ok_* tell whether each request succeeds.
create_octopus_release(srv, space_name, project_name, version, ok_spaces, ok_projects, ok_release) ==
    LET spaces_response == GetSpaces(srv, ok_spaces) IN
    IF spaces_response.raised THEN spaces_response
    ELSE IF space_name \notin spaces_response.Items
    THEN [raised |-> TRUE, error |-> "Space not found"]
    ELSE IF ~ok_projects THEN [raised |-> TRUE, error |-> "HTTPError: projects"]
    ELSE IF project_name \notin srv.projects
    THEN [raised |-> TRUE, error |-> "Project not found"]
    ELSE IF ~ok_release THEN [raised |-> TRUE, error |-> "HTTPError: releases"]
    ELSE [raised |-> FALSE,
          release |-> [Id |-> <<"Releases", version>>, SpaceId |-> <<"Spaces", space_name>>,
                       ProjectId |-> <<"Projects", project_name>>, Version |-> version]]

\* A variant that creates the deployment without looking the environment up.
deploy_release_unchecked(srv, space_id, release_id, environment_name, ok_environments, ok_deployment) ==
    IF ~ok_environments THEN [raised |-> TRUE, error |-> "HTTPError: environments"]
    ELSE IF ~ok_deployment THEN [raised |-> TRUE, error |-> "HTTPError: deployments"]
    ELSE [raised |-> FALSE,
          deployment |-> [Id |-> <<"Deployments", release_id>>, ReleaseId |-> release_id,
                          EnvironmentId |-> <<"Environments", environment_name>>]]

\* deploy_release, index.py:58-97: the deployment created, or the exception
deploy_release(srv, space_id, release_id, environment_name, ok_environments, ok_deployment) ==
    IF ~ok_environments THEN [raised |-> TRUE, error |-> "HTTPError: environments"]
    ELSE IF environment_name \notin srv.environments
    THEN [raised |-> TRUE, error |-> "Environment not found"]
    ELSE IF ~ok_deployment THEN [raised |-> TRUE, error |-> "HTTPError: deployments"]
    ELSE [raised |-> FALSE,
          deployment |-> [Id |-> <<"Deployments", release_id>>, ReleaseId |-> release_id,
                          EnvironmentId |-> <<"Environments", environment_name>>]]

\* wait_for_deployment, index.py:99-134
timeout_minutes == 15
SecondsPerMinute == 60
PollInterval == 30
timeout_seconds == timeout_minutes * SecondsPerMinute

\* index.py:128
TerminalStates == {"Success", "Failed", "Canceled", "TimedOut"}

\* A variant that takes every terminal state but Failed for a success.
IsSuccess_NotFailed(state) == state # "Failed"

\* index.py:129
IsSuccess(state) == state = "Success"

\* index.py:118
WithinTimeout(seconds) == seconds < timeout_seconds

\* codepipeline.put_job_success_result / put_job_failure_result.  boto3
\* refuses a jobId that is not a str, so a call with None never succeeds.
NotifyCall(name, job_id, ok_notify) ==
    [call |-> name, jobId |-> job_id, ok |-> ok_notify /\ job_id # None]

\* A variant of the except branch that notifies nobody.
ExceptCalls_Silent(bound, ok_notify) == <<>>

\* index.py:233-239: the calls the except branch issues, given the locals
ExceptCalls(bound, ok_notify) ==
    IF "job_id" \in DOMAIN bound
    THEN <<NotifyCall("put_job_failure_result", bound.job_id, ok_notify)>>
    ELSE <<>>

\* The responses of handler, index.py:203-210, 221-228, 241-246; Crashed is
\* an exception leaving handler
DeploymentSuccessful ==
    [statusCode |-> 200, message |-> "Deployment successful"]
DeploymentFailed ==
    [statusCode |-> 500, message |-> "Deployment failed"]
ErrorResponse(error) ==
    [statusCode |-> 500, message |-> <<"Error: ", error>>]
Crashed == [statusCode |-> 0, message |-> "unhandled exception"]

\* index.py:139-162: the event, the environment and the API key are read
DepParse ==
    /\ dep_pc = "start"
    /\ \E ok_parameter \in BOOLEAN :
        LET job == Get(dep_event, "job", [json |-> "object"])
            job_id == Get(job, "id", None)
            text == Get(job, "UserParameters", [json |-> "object"])
            fail(bound, error) ==
                /\ locals' = bound
                /\ dep_error' = error
                /\ dep_pc' = "except"
        IN
        IF job.json # "object" THEN fail(<<>>, "AttributeError")
        ELSE IF text.json = "invalid" THEN fail([job_id |-> job_id], "JSONDecodeError")
        ELSE IF "OCTOPUS_SERVER_URL" \notin DOMAIN dep_environ
             \/ "OCTOPUS_SPACE_NAME" \notin DOMAIN dep_environ
        THEN fail([job_id |-> job_id], "KeyError")
        ELSE IF text.json # "object" THEN fail([job_id |-> job_id], "AttributeError")
        ELSE IF GetParameter(ok_parameter).raised
        THEN fail([job_id |-> job_id], GetParameter(ok_parameter).error)
        ELSE /\ locals' = [job_id |-> job_id,
                           space_name |-> dep_environ.OCTOPUS_SPACE_NAME,
                           project_name |-> Get(text, "project", ""),
                           environment_name |-> Get(text, "environment", ""),
                           version |-> Get(text, "version", "")]
             /\ dep_error' = ""
             /\ dep_pc' = "create_release"
    /\ UNCHANGED <<dep_event, dep_environ, server, releases, deployments, elapsed,
                   polls, last_state, notify_calls, dep_response>>

\* index.py:165-174
DepCreateRelease ==
    /\ dep_pc = "create_release"
    /\ \E ok_spaces \in BOOLEAN, ok_projects \in BOOLEAN, ok_release \in BOOLEAN :
        LET outcome == create_octopus_release(server, locals.space_name,
                                              ProjectConvention(locals.project_name),
                                              locals.version,
                                              ok_spaces, ok_projects, ok_release)
        IN
        IF outcome.raised
        THEN /\ dep_error' = outcome.error
             /\ dep_pc' = "except"
             /\ UNCHANGED <<locals, releases>>
        ELSE /\ releases' = Append(releases, outcome.release)
             /\ locals' = [release |-> outcome.release] @@ locals
             /\ dep_pc' = "deploy"
             /\ UNCHANGED dep_error
    /\ UNCHANGED <<dep_event, dep_environ, server, deployments, elapsed, polls,
                   last_state, notify_calls, dep_response>>

\* index.py:177-185, and the start of wait_for_deployment (115-116)
DepDeployRelease ==
    /\ dep_pc = "deploy"
    /\ \E ok_environments \in BOOLEAN, ok_deployment \in BOOLEAN :
        LET outcome == deploy_release(server, locals.release.SpaceId, locals.release.Id,
                                      locals.environment_name,
                                      ok_environments, ok_deployment)
        IN
        IF outcome.raised
        THEN /\ dep_error' = outcome.error
             /\ dep_pc' = "except"
             /\ UNCHANGED <<locals, deployments>>
        ELSE /\ deployments' = Append(deployments, outcome.deployment)
             /\ locals' = [deployment |-> outcome.deployment] @@ locals
             /\ dep_pc' = "wait"
             /\ UNCHANGED dep_error
    /\ elapsed' = 0
    /\ UNCHANGED <<dep_event, dep_environ, server, releases, polls, last_state,
                   notify_calls, dep_response>>

\* The states a status query may answer: '' when the State key is absent
DeploymentStates == {"", "Executing"} \cup TerminalStates

\* The last two of the queries answered
LastTwo(seq) == IF Len(seq) > 2 THEN SubSeq(seq, Len(seq) - 1, Len(seq)) ELSE seq

\* index.py:118-131: one turn of the loop of wait_for_deployment: the status
\* is asked for, answered after latency seconds, and the loop returns on a
\* terminal state or sleeps 30 seconds
DepPoll ==
    /\ dep_pc = "wait"
    /\ WithinTimeout(elapsed)
    /\ \E ok_status \in BOOLEAN, latency \in 0..MaxLatency, state \in DeploymentStates :
        IF ~ok_status
        THEN /\ dep_error' = "HTTPError: deployment"
             /\ dep_pc' = "except"
             /\ elapsed' = elapsed + latency
             /\ UNCHANGED <<locals, polls, last_state>>
        ELSE /\ polls' = LastTwo(Append(polls, elapsed))
             /\ last_state' = state
             /\ IF state \in TerminalStates
                THEN /\ locals' = [success |-> IsSuccess(state)] @@ locals
                     /\ dep_pc' = "notify"
                     /\ elapsed' = elapsed + latency
                ELSE /\ elapsed' = elapsed + latency + PollInterval
                     /\ UNCHANGED <<locals, dep_pc>>
             /\ UNCHANGED dep_error
    /\ UNCHANGED <<dep_event, dep_environ, server, releases, deployments,
                   notify_calls, dep_response>>

\* index.py:118, 133-134: the timeout has elapsed
DepTimeout ==
    /\ dep_pc = "wait"
    /\ ~WithinTimeout(elapsed)
    /\ locals' = [success |-> FALSE] @@ locals
    /\ dep_pc' = "notify"
    /\ UNCHANGED <<dep_event, dep_environ, server, releases, deployments, dep_error,
                   elapsed, polls, last_state, notify_calls, dep_response>>

\* index.py:196-228: the pipeline is told of the success or of the failure
DepNotify ==
    /\ dep_pc = "notify"
    /\ \E ok_notify \in BOOLEAN :
        LET call == NotifyCall(IF locals.success THEN "put_job_success_result"
                               ELSE "put_job_failure_result", locals.job_id, ok_notify)
        IN
        /\ notify_calls' = Append(notify_calls, call)
        /\ IF call.ok
           THEN /\ dep_response' = IF locals.success THEN DeploymentSuccessful
                                   ELSE DeploymentFailed
                /\ dep_pc' = "done"
                /\ UNCHANGED dep_error
           ELSE /\ dep_error' = "ClientError: codepipeline"
                /\ dep_pc' = "except"
                /\ UNCHANGED dep_response
    /\ UNCHANGED <<dep_event, dep_environ, server, releases, deployments, locals,
                   elapsed, polls, last_state>>

\* index.py:230-246: the except branch of handler
DepExcept ==
    /\ dep_pc = "except"
    /\ \E ok_notify \in BOOLEAN :
        LET calls == ExceptCalls(locals, ok_notify) IN
        /\ notify_calls' = notify_calls \o calls
        /\ dep_response' = IF calls # <<>> /\ ~calls[1].ok THEN Crashed
                           ELSE ErrorResponse(dep_error)
    /\ dep_pc' = "done"
    /\ UNCHANGED <<dep_event, dep_environ, server, releases, deployments, locals,
                   dep_error, elapsed, polls, last_state>>

(***************************************************************************)
(* The inputs of the model                                                 *)
(***************************************************************************)
\* A secret name has at most this many fragments.
MaxNameParts == 2
\* A stored JSON object has at most this many members.
MaxMembers == 2
\* list_secrets enumerates at most this many secrets.
MaxSecrets == 2

SeqsUpTo(S, n) == UNION { [1..k -> S] : k \in 0..n }

NameFragments ==
    {"ecs-modernization/", "database", "api-secrets", "jwt", "ap", "i", "DATABASE"}

\* The names of the examples of the specification, and every name of
\* 1..MaxNameParts fragments
SecretNames ==
    (SeqsUpTo(NameFragments, MaxNameParts) \ {<<>>})
    \cup { <<"foo-", "database", "-bar">>, <<"foo-", "api-secrets">>,
           <<"foo-", "jwt", "-bar">>, <<"foo-", "other">>,
           <<"api-secrets", "-bar", "jwt">> }

old == <<"o","l","d">>
older == <<"o","l","d","e","r">>

FieldNames ==
    {"password", "jwt_secret", "api_key", "encrypt_key", "webhook_secret", "token", "host"}

Members == { <<k, old>> : k \in FieldNames } \cup { <<"password", older>> }

\* What a secret may hold
StoredValues ==
    {Binary, JsonInvalid, JsonString(old), JsonArray(<<>>), JsonArray(<<"token">>),
     JsonArray(<<"jwt_secret">>)}
    \cup { JsonObject(m) : m \in SeqsUpTo(Members, MaxMembers) }

EnvironValues == {<<>>, [KMS_KEY_ID |-> ""], [KMS_KEY_ID |-> "key-1"]}

\* The secrets of a batch
BatchNames ==
    { <<"ecs-modernization/", "database">>, <<"ecs-modernization/", "api-secrets">>,
      <<"ecs-modernization/", "jwt">>, <<"ecs-modernization/", "other">>,
      <<"other", "ecs-modernization/", "database">>, <<"ecs-modernization", "database">> }

BatchValues ==
    { JsonInvalid, JsonObject(<< <<"password", old>>, <<"token", old>> >>) }

\* Never changed, changed exactly 90 days before MaxTime, changed a tick earlier
BatchDates ==
    { <<>>,
      [LastChangedDate |-> MaxTime - timedelta(RotationDays)],
      [LastChangedDate |-> MaxTime - timedelta(RotationDays) - 1] }

Injective(f) == \A i, j \in DOMAIN f : f[i] = f[j] => i = j

\* The UserParameters of a pipeline job: JSON text
UserParameterTexts ==
    { [json |-> "invalid"], [json |-> "array"],
      [json |-> "object", project |-> "web", environment |-> "prod", version |-> "1.0"],
      [json |-> "object", project |-> "web", version |-> "1.0"] }

\* event['CodePipeline.job']: absent, null, or an object with or without
\* an id and UserParameters
DeploymentEvents ==
    { <<>>, [job |-> [json |-> "null"]] }
    \cup { [job |-> ([json |-> "object"] @@ id @@ text)] :
             id \in {<<>>, [id |-> "job-1"]},
             text \in {<<>>} \cup [{"UserParameters"} -> UserParameterTexts] }

DeploymentEnvirons ==
    { <<>>, [OCTOPUS_SERVER_URL |-> "https://octopus"],
      [OCTOPUS_SERVER_URL |-> "https://octopus", OCTOPUS_SPACE_NAME |-> "Default"] }

\* The names the deployment server knows
Servers ==
    [spaces : SUBSET {"Default"},
     projects : {{}, {<<"WEB", "-System">>}, {<<"web", "-System">>}},
     environments : SUBSET {"prod"}]

(***************************************************************************)
(* Specifications                                                          *)
(***************************************************************************)
NoCalls ==
    /\ passwords = <<>>
    /\ sr_calls = <<>>

RotatorIdle ==
    /\ rot_pc = "idle"
    /\ fetched = 0
    /\ page = <<>>
    /\ results = EmptyResults
    /\ response = <<>>
    /\ rotate_log = <<>>

\* No invocation of the rotator
RotatorUnused ==
    /\ RotatorIdle
    /\ event = <<>>
    /\ environ = <<>>
    /\ utcnow = 0
    /\ secrets_store = <<>>
    /\ secret_list = <<>>

\* The trigger before its handler is invoked
TriggerIdle ==
    /\ releases = <<>>
    /\ deployments = <<>>
    /\ dep_pc = "start"
    /\ locals = <<>>
    /\ dep_error = ""
    /\ elapsed = 0
    /\ polls = <<>>
    /\ last_state = None
    /\ notify_calls = <<>>
    /\ dep_response = <<>>

\* No invocation of the trigger
TriggerUnused ==
    /\ TriggerIdle
    /\ dep_event = <<>>
    /\ dep_environ = <<>>
    /\ server = [spaces |-> {}, projects |-> {}, environments |-> {}]

Init ==
    /\ NoCalls
    /\ RotatorUnused
    /\ TriggerUnused

\* Calls of generate_secure_password(32)
NextPassword == GeneratePassword
SpecPassword == Init /\ [][NextPassword]_vars

\* Calls of should_rotate_secret
NextShouldRotate == ShouldRotate
SpecShouldRotate == Init /\ [][NextShouldRotate]_vars

\* An invocation of the rotator for one secret: a store holding any secret,
\* and an event naming it
InitSpecific ==
    /\ NoCalls
    /\ TriggerUnused
    /\ RotatorIdle
    /\ environ = [KMS_KEY_ID |-> "key-1"]
    /\ utcnow = MaxTime
    /\ secret_list = <<>>
    /\ \E name \in SecretNames, value \in StoredValues :
        /\ event = [SecretId |-> name]
        /\ secrets_store = (name :> value)

NextSpecific == HandlerSpecific /\ UNCHANGED <<pure_vars, dep_vars>>

SpecSpecific == InitSpecific /\ [][NextSpecific]_vars

\* A batch invocation of the rotator: a scheduled or a default event, and a
\* store list_secrets enumerates
InitBatch ==
    /\ NoCalls
    /\ TriggerUnused
    /\ RotatorIdle
    /\ environ \in EnvironValues
    /\ utcnow = MaxTime
    /\ event \in {[source |-> "aws.events"], <<>>}
    /\ \E k \in 0..MaxSecrets :
        \E names \in [1..k -> BatchNames], dates \in [1..k -> BatchDates],
           values \in [1..k -> BatchValues] :
            /\ Injective(names)
            /\ secret_list = [i \in 1..k |-> [Name |-> names[i]] @@ dates[i]]
            /\ secrets_store =
                 [n \in {names[i] : i \in 1..k} |->
                    values[CHOOSE i \in 1..k : names[i] = n]]

NextBatch ==
    \/ (HandlerMissingKey /\ UNCHANGED <<pure_vars, dep_vars>>)
    \/ (HandlerBatch /\ UNCHANGED <<pure_vars, dep_vars>>)
    \/ (PaginateNext /\ UNCHANGED <<pure_vars, dep_vars>>)
    \/ (PaginateRaise /\ UNCHANGED <<pure_vars, dep_vars>>)
    \/ (ProcessSecret /\ UNCHANGED <<pure_vars, dep_vars>>)
    \/ (BatchReturn /\ UNCHANGED <<pure_vars, dep_vars>>)

SpecBatch == InitBatch /\ [][NextBatch]_vars

\* An invocation of the deployment trigger
InitDeploy ==
    /\ NoCalls
    /\ RotatorUnused
    /\ TriggerIdle
    /\ dep_event \in DeploymentEvents
    /\ dep_environ \in DeploymentEnvirons
    /\ server \in Servers

NextDeploy ==
    \/ (DepParse /\ UNCHANGED <<pure_vars, rot_vars>>)
    \/ (DepCreateRelease /\ UNCHANGED <<pure_vars, rot_vars>>)
    \/ (DepDeployRelease /\ UNCHANGED <<pure_vars, rot_vars>>)
    \/ (DepPoll /\ UNCHANGED <<pure_vars, rot_vars>>)
    \/ (DepTimeout /\ UNCHANGED <<pure_vars, rot_vars>>)
    \/ (DepNotify /\ UNCHANGED <<pure_vars, rot_vars>>)
    \/ (DepExcept /\ UNCHANGED <<pure_vars, rot_vars>>)

SpecDeploy == InitDeploy /\ [][NextDeploy]_vars

\* handler is one synchronous thread: a step that can be taken is taken
SpecDeployFair == SpecDeploy /\ WF_vars(NextDeploy)

(***************************************************************************)
(* Properties of generate_secure_password                                  *)
(***************************************************************************)
HasEveryClass(p) ==
    /\ AnyChar(p, ascii_lowercase)
    /\ AnyChar(p, ascii_uppercase)
    /\ AnyChar(p, digits)
    /\ AnyChar(p, symbols)

\* C1: every string generate_secure_password(32) returns has length 32 and
\* holds at least one lowercase letter, one uppercase letter, one digit and
\* one symbol of !@#$%^&*.
C1_PasswordHasEveryClass ==
    \A i \in DOMAIN passwords :
        Len(passwords[i]) = PasswordLength /\ HasEveryClass(passwords[i])

(***************************************************************************)
(* Properties of should_rotate_secret                                      *)
(***************************************************************************)
\* How long before utcnow the secret of a call was last changed, in ticks.
Age(call) == call.utcnow - call.secret.LastChangedDate

\* C2 as stated: due with no timestamp, due when last changed 90 days ago or
\* more (exactly 90 days included), not due when changed less than 90 days ago.
C2_DueAtNinetyDaysOrMore ==
    \A i \in DOMAIN sr_calls :
        LET call == sr_calls[i] IN
        call.result = (NoLastChanged(call.secret) \/ Age(call) >= timedelta(RotationDays))

\* C2 amended: due with no timestamp, due when last changed strictly more
\* than 90 days ago, not due when changed 90 days ago or less (exactly 90
\* days included).
C2_DueStrictlyAfterNinetyDays ==
    \A i \in DOMAIN sr_calls :
        LET call == sr_calls[i] IN
        call.result = (NoLastChanged(call.secret) \/ Age(call) > timedelta(RotationDays))

\* A call on a secret last changed exactly 90 days before now answered false.
C2_Witness_ExactlyNinetyDays ==
    \E i \in DOMAIN sr_calls :
        LET call == sr_calls[i] IN
        /\ ~NoLastChanged(call.secret)
        /\ Age(call) = timedelta(RotationDays)
        /\ call.result = FALSE

(***************************************************************************)
(* Properties of a rotation (rotate_secret_by_type and the rotations by    *)
(* category), read off rotate_log                                          *)
(***************************************************************************)
HasName(chars, f) == Contains(chars, Spell(f))

\* The rotations that returned
ReturnedRotations == { i \in DOMAIN rotate_log : ~rotate_log[i].outcome.raised }

\* C5: the rotation applied follows the first matching substring of the
\* name in the order database > api-secrets > jwt or api (token) > generic.
C5_DispatchPriority ==
    \A i \in ReturnedRotations :
        LET chars == Chars(rotate_log[i].secret_name)
            type == rotate_log[i].outcome.result.type
        IN
        /\ HasName(chars, "database") => type = "database"
        /\ (HasName(chars, "api-secrets") /\ ~HasName(chars, "database")) => type = "api_secret"
        /\ ((HasName(chars, "jwt") \/ HasName(chars, "api"))
              /\ ~HasName(chars, "database") /\ ~HasName(chars, "api-secrets")) => type = "token"
        /\ (~HasName(chars, "database") /\ ~HasName(chars, "api-secrets")
              /\ ~HasName(chars, "jwt") /\ ~HasName(chars, "api")) => type = "generic"

\* A name holding both 'api-secrets' and 'jwt' was rotated as api-secrets.
C5_Witness_ApiSecretsBeforeJwt ==
    \E i \in ReturnedRotations :
        LET chars == Chars(rotate_log[i].secret_name) IN
        /\ HasName(chars, "api-secrets") /\ HasName(chars, "jwt")
        /\ rotate_log[i].outcome.result.type = "api_secret"

\* The rotations that read a JSON object and issued an update_secret call
ObjectUpdates ==
    { i \in DOMAIN rotate_log :
        /\ rotate_log[i].read # <<>>
        /\ rotate_log[i].read[1].json = "object"
        /\ rotate_log[i].outcome.updates # <<>> }

\* The dict read by rotation i and the members written back by it
ReadItems(i) == json_loads(rotate_log[i].read[1]).items
WrittenItems(i) == rotate_log[i].outcome.updates[1].SecretString.members

\* The fields each category regenerates
Regenerated(category) ==
    CASE category = "database" -> {"password"}
      [] category = "api_secret" -> {"jwt_secret", "api_key", "encrypt_key", "webhook_secret"}
      [] category = "token" -> {"token"}
      [] OTHER -> {}

\* The category of rotation i, by the priority order of the names
CategoryOfRotation(i) ==
    LET chars == Chars(rotate_log[i].secret_name) IN
    IF HasName(chars, "database") THEN "database"
    ELSE IF HasName(chars, "api-secrets") THEN "api_secret"
    ELSE IF HasName(chars, "jwt") \/ HasName(chars, "api") THEN "token"
    ELSE "generic"

\* C6 as stated: for every category the value written back has exactly the
\* field names of the value read.
C6_FieldNamesPreserved ==
    \A i \in ObjectUpdates : Keys(WrittenItems(i)) = Keys(ReadItems(i))

\* C6 amended: an api-secrets or token rotation writes back exactly the
\* field names read; a database rotation writes back the field names read
\* plus password, adding password when it was absent.
C6_FieldNamesPreservedButPassword ==
    \A i \in ObjectUpdates :
        IF CategoryOfRotation(i) = "database"
        THEN Keys(WrittenItems(i)) = Keys(ReadItems(i)) \cup {"password"}
        ELSE Keys(WrittenItems(i)) = Keys(ReadItems(i))

\* An api-secrets entry holding only jwt_secret was rotated: jwt_secret is
\* new, and api_key, encrypt_key and webhook_secret are still absent.
C6_Witness_OnlyJwtSecret ==
    \E i \in ObjectUpdates :
        /\ CategoryOfRotation(i) = "api_secret"
        /\ Keys(ReadItems(i)) = {"jwt_secret"}
        /\ Keys(WrittenItems(i)) = {"jwt_secret"}
        /\ DictGet(WrittenItems(i), "jwt_secret") # DictGet(ReadItems(i), "jwt_secret")

\* C7: every field outside the regenerated set of the category has, in the
\* value written back, exactly the value it had in the value read.
C7_OtherFieldsUnchanged ==
    \A i \in ObjectUpdates :
        \A k \in Keys(ReadItems(i)) \ Regenerated(CategoryOfRotation(i)) :
            /\ k \in Keys(WrittenItems(i))
            /\ DictGet(WrittenItems(i), k) = DictGet(ReadItems(i), k)

\* A database secret with host and password was rotated: host is as read,
\* password is new.
C7_Witness_DatabaseKeepsHost ==
    \E i \in ObjectUpdates :
        /\ CategoryOfRotation(i) = "database"
        /\ Keys(ReadItems(i)) = {"host", "password"}
        /\ DictGet(WrittenItems(i), "host") = DictGet(ReadItems(i), "host")
        /\ DictGet(WrittenItems(i), "password") # DictGet(ReadItems(i), "password")

(***************************************************************************)
(* Properties of a batch rotation                                          *)
(***************************************************************************)
Names(entries) == { entries[i].name : i \in DOMAIN entries }
Range(seq) == { seq[i] : i \in DOMAIN seq }

\* The entries of secret_list the loop has gone through
Consumed == SubSeq(secret_list, 1, fetched - Len(page))

\* The name prefix of the namespace, on the characters of the name
HasPrefix(secret_name) ==
    LET chars == Chars(secret_name)
        prefix == Spell("ecs-modernization/")
    IN  Len(chars) >= Len(prefix) /\ \A i \in 1..Len(prefix) : chars[i] = prefix[i]

BatchStarted == rot_pc \in {"paginate", "page"} \/ (rot_pc = "done" /\ KmsKeyId # "")

\* C3: a failure while a secret is processed is recorded in failed_secrets
\* and never aborts the batch: only a failure to list ends the batch with an
\* error, and every due secret of the namespace the loop has gone through,
\* those after a failing one included, is in rotated_secrets or
\* failed_secrets.
C3_FailureRecordedBatchContinues ==
    BatchStarted =>
        /\ \A i \in DOMAIN rotate_log :
              rotate_log[i].outcome.raised =>
                 /\ \E j \in DOMAIN results.failed_secrets :
                       /\ results.failed_secrets[j].name = rotate_log[i].secret_name
                       /\ results.failed_secrets[j].error = rotate_log[i].outcome.error
                 /\ rotate_log[i].secret_name \notin Names(results.rotated_secrets)
        /\ (rot_pc = "done" /\ response.statusCode = 500)
              => response.body.error = "list_secrets failed"
        /\ \A i \in DOMAIN Consumed :
              (HasPrefix(Consumed[i].Name) /\ should_rotate_secret(Consumed[i], utcnow))
                 => Consumed[i].Name \in
                       Names(results.rotated_secrets) \cup Names(results.failed_secrets)

\* The batch over [A, B] returned its report with A, which failed, in
\* failed_secrets and B, listed after it, in rotated_secrets.
C3_Witness_FailedThenRotated ==
    /\ rot_pc = "done"
    /\ response.statusCode = 200
    /\ Len(secret_list) = 2
    /\ Len(rotate_log) = 2
    /\ rotate_log[1].outcome.raised
    /\ ~rotate_log[2].outcome.raised
    /\ Names(response.body.results.failed_secrets) = {secret_list[1].Name}
    /\ Names(response.body.results.rotated_secrets) = {secret_list[2].Name}

BatchReturned == BatchStarted /\ rot_pc = "done" /\ response.statusCode = 200

\* How many entries of a list of the report are about a name
Occurrences(names, secret_name) == Cardinality({ i \in DOMAIN names : names[i] = secret_name })

NamesOf(entries) == [i \in DOMAIN entries |-> entries[i].name]

\* C8: in the report a batch returns, every listed secret of the namespace
\* is in exactly one of rotated_secrets, skipped_secrets, failed_secrets (due:
\* rotated or failed; not due: skipped), and no secret outside the namespace
\* is in any of them.
C8_ReportPartitionsNamespace ==
    BatchReturned =>
        LET report == response.body.results
            rotated == NamesOf(report.rotated_secrets)
            skipped == report.skipped_secrets
            failed == NamesOf(report.failed_secrets)
        IN
        /\ \A i \in DOMAIN secret_list :
              LET secret_name == secret_list[i].Name IN
              HasPrefix(secret_name) =>
                 /\ Occurrences(rotated, secret_name) + Occurrences(skipped, secret_name)
                       + Occurrences(failed, secret_name) = 1
                 /\ should_rotate_secret(secret_list[i], utcnow)
                       => Occurrences(skipped, secret_name) = 0
                 /\ ~should_rotate_secret(secret_list[i], utcnow)
                       => Occurrences(skipped, secret_name) = 1
        /\ \A secret_name \in Range(rotated) \cup Range(skipped) \cup Range(failed) :
              /\ HasPrefix(secret_name)
              /\ \E i \in DOMAIN secret_list : secret_list[i].Name = secret_name

\* A report was returned for a list holding a secret that is not due and a
\* secret outside the namespace whose name holds the prefix further on.
C8_Witness_SkippedAndForeign ==
    /\ BatchReturned
    /\ Len(response.body.results.skipped_secrets) = 1
    /\ \E i \in DOMAIN secret_list :
          /\ ~HasPrefix(secret_list[i].Name)
          /\ Contains(Chars(secret_list[i].Name), Spell("ecs-modernization/"))

\* The name holds none of 'database', 'api-secrets', 'jwt', 'api'
IsGenericName(secret_name) ==
    LET chars == Chars(secret_name) IN
    \A word \in {"database", "api-secrets", "jwt", "api"} : ~Contains(chars, Spell(word))

\* list_secrets gives the name with a date that makes the secret due
IsDue(secret_name) ==
    \E i \in DOMAIN secret_list :
        /\ secret_list[i].Name = secret_name
        /\ should_rotate_secret(secret_list[i], utcnow)

\* The secrets a batch may write: of the namespace, due, and not generic
Writable(secret_name) ==
    HasPrefix(secret_name) /\ IsDue(secret_name) /\ ~IsGenericName(secret_name)

\* The update_secret calls issued so far
UpdatesIssued ==
    UNION { Range(rotate_log[i].outcome.updates) : i \in DOMAIN rotate_log }

OnlyWritableUpdated ==
    BatchStarted => \A call \in UpdatesIssued : Writable(call.SecretId)

OthersKept ==
    \A secret_name \in DOMAIN secrets_store :
        ~Writable(secret_name) =>
            /\ secret_name \in DOMAIN secrets_store'
            /\ secrets_store'[secret_name] = secrets_store[secret_name]

\* C11: during a batch no update_secret call is issued for a secret outside
\* the namespace, for a secret that is not due or for a generic secret, and
\* no step of the batch changes the stored value of such a secret, so that
\* these values are the same when the batch ends as when it began.
C11_OnlyDueNamespaceNonGenericWritten ==
    /\ []OnlyWritableUpdated
    /\ [][OthersKept]_vars

\* A batch returned its report after reviewing a generic secret, which it
\* left as it was, and writing a secret of another category.
C11_Witness_GenericReviewedOtherWritten ==
    /\ BatchReturned
    /\ \E i \in DOMAIN rotate_log :
          /\ IsGenericName(rotate_log[i].secret_name)
          /\ ~rotate_log[i].outcome.raised
          /\ rotate_log[i].outcome.updates = <<>>
          /\ rotate_log[i].read = <<secrets_store[rotate_log[i].secret_name]>>
    /\ \E call \in UpdatesIssued :
          /\ call.ok
          /\ secrets_store[call.SecretId] = call.SecretString

(***************************************************************************)
(* Properties of the deployment trigger                                    *)
(***************************************************************************)
Invoked == dep_pc = "done"

\* C4 as stated: whatever the outcome of an invocation, exactly one
\* put_job_success_result or put_job_failure_result call is issued.
C4_ExactlyOneNotification == Invoked => Len(notify_calls) = 1

\* C4 amended: no call is issued when the exception is raised before job_id
\* is bound, and only then; one call is issued otherwise, and a second one,
\* put_job_failure_result from the except branch, only when the first was
\* issued in the try block and raised; at most one call completes.
C4_NotificationCalls ==
    Invoked =>
        LET n == Len(notify_calls) IN
        /\ n <= 2
        /\ (n = 0) = ("job_id" \notin DOMAIN locals)
        /\ n = 2 => /\ ~notify_calls[1].ok
                    /\ "success" \in DOMAIN locals
                    /\ notify_calls[2].call = "put_job_failure_result"
        /\ Cardinality({ i \in 1..n : notify_calls[i].ok }) <= 1
        /\ (\A i \in 1..n : notify_calls[i].ok) => n <= 1

\* The deployment succeeded and the pipeline got its one success call.
C4_Witness_OneSuccessCall ==
    /\ Invoked
    /\ dep_response = DeploymentSuccessful
    /\ Len(notify_calls) = 1
    /\ notify_calls[1].call = "put_job_success_result"
    /\ notify_calls[1].ok

\* The names of the request, once handler has read them
NamesRead == "project_name" \in DOMAIN locals
SpaceMissing == locals.space_name \notin server.spaces
ProjectMissing == ProjectConvention(locals.project_name) \notin server.projects
EnvironmentMissing == locals.environment_name \notin server.environments

\* C9 as stated: the three names are resolved before the release is
\* created, so with any of them missing the invocation fails and no release
\* has been created.
C9_NoReleaseWhenNameMissing ==
    (NamesRead /\ (SpaceMissing \/ ProjectMissing \/ EnvironmentMissing)) =>
        /\ releases = <<>>
        /\ Invoked => dep_response.statusCode # 200

\* C9 amended: the space and the project are resolved before the release is
\* created, the environment after it and before the deployment: with any
\* name missing the invocation fails; with the space or the project missing
\* no release is created; with the environment missing no deployment is
\* created, the release having been created before.
C9_ResolveOrder ==
    /\ (NamesRead /\ (SpaceMissing \/ ProjectMissing \/ EnvironmentMissing)) =>
          /\ Invoked => dep_response.statusCode # 200
          /\ deployments = <<>>
    /\ (NamesRead /\ (SpaceMissing \/ ProjectMissing)) => releases = <<>>
    /\ deployments # <<>> => releases # <<>>
    /\ dep_error = "Environment not found" => releases # <<>>

\* The environment was missing: the invocation failed with a release
\* created on the server and no deployment.
C9_Witness_ReleaseWithoutEnvironment ==
    /\ Invoked
    /\ NamesRead
    /\ EnvironmentMissing
    /\ releases # <<>>
    /\ deployments = <<>>
    /\ dep_response.statusCode = 500

\* wait_for_deployment has returned
WaitReturned == "success" \in DOMAIN locals

\* What holds of wait_for_deployment in every state
WaitVerdict ==
    /\ dep_pc = "wait" => last_state \notin TerminalStates
    /\ \A i \in DOMAIN polls : polls[i] < 15 * 60
    /\ Len(polls) = 2 => /\ polls[2] - polls[1] >= 30
                          /\ polls[2] - polls[1] <= 30 + MaxLatency
    /\ WaitReturned =>
          /\ locals.success = (last_state = "Success")
          /\ last_state \in {"Failed", "Canceled", "TimedOut"} => ~locals.success
          /\ last_state \notin TerminalStates => (~locals.success /\ elapsed >= 15 * 60)

\* C10: wait_for_deployment always ends; its queries are sent before the 15
\* minutes have elapsed, 30 seconds after the answer to the one before; it
\* returns true if and
\* only if the first terminal state it observes is Success, false on Failed,
\* Canceled and TimedOut, and false when the timeout elapses with no
\* terminal state observed.
C10_WaitEndsWithVerdict ==
    /\ []WaitVerdict
    /\ (dep_pc = "wait") ~> (dep_pc # "wait")

\* wait_for_deployment returned true on Success after a query that found
\* the deployment still executing.
C10_Witness_SuccessAfterPolling ==
    /\ WaitReturned
    /\ locals.success
    /\ last_state = "Success"
    /\ Len(polls) = 2

=============================================================================
